---- MODULE Spec2Model ----
(***************************************************************************)
(* Model of the account subsystem of backend/app/users/router.py: the five *)
(* request handlers user_login, user_register, user_read, update_user and  *)
(* delete_user, running concurrently against one shared user table.        *)
(*                                                                         *)
(* Every database statement of a handler (a select, a get, a commit) is    *)
(* one atomic step; the steps of different requests interleave freely.     *)
(* users/model.py and constants.py are not part of the sources at hand:    *)
(* EnUser.get_token_information, EnUserDB.verify_password,                 *)
(* EnUserUpdate.model_dict, decode_token and the table's constraints are   *)
(* modelled from the written specification.                                *)
(***************************************************************************)
EXTENDS Integers, Sequences, FiniteSets, TLC

\* ------------------------------------------------------------------ bounds

\* Requests that arrive in one behaviour.
MaxRequests == 4

\* Requests that may be in flight at the same time.
MaxInFlight == 2

\* ------------------------------------------------------------ HTTP statuses

HTTP_200_OK == 200

HTTP_401_UNAUTHORIZED == 401

HTTP_404_NOT_FOUND == 404

HTTP_409_CONFLICT == 409

\* An exception no handler catches: the framework answers 500.
HTTP_500_UNHANDLED == 500

\* ------------------------------------------------------------------ inputs

\* Usernames are sequences of characters, so that str.lower() is computed.
Usernames == { <<"b", "o">>, <<"B", "o">>, <<"a", "l">> }

Mails == { "b@x.com", "a@x.com" }

Passwords == { "pw1", "pw2" }

\* The salts pbkdf2_sha256.hash may draw.
Salts == { "s1" }

Slots == 1..MaxInFlight

\* str.lower() on one character.
LowerChar(c) ==
    CASE c = "A" -> "a"
      [] c = "B" -> "b"
      [] c = "O" -> "o"
      [] c = "L" -> "l"
      [] OTHER -> c

\* str.lower(): user.username.lower().
lower(s) == [i \in DOMAIN s |-> LowerChar(s[i])]

\* -------------------------------------------------------------- PasswordHasher

\* pbkdf2_sha256.hash(plaintext): an algorithm-tagged value holding the salt
\* and the digest of (salt, plaintext); the digest is kept symbolic.
pbkdf2_hash(plaintext, salt) == << "$pbkdf2-sha256", salt, plaintext >>

\* A password value written to the column as it came in the request.
raw_value(plaintext) == << "raw", "", plaintext >>

\* Whether a stored password value has the format pbkdf2_sha256 produces.
is_pbkdf2(stored) == stored[1] = "$pbkdf2-sha256"

\* pbkdf2_sha256.verify(plaintext, stored) on a well-formed hash: recompute
\* with the embedded salt and compare.
pbkdf2_verify(plaintext, stored) == stored = pbkdf2_hash(plaintext, stored[2])

\* ------------------------------------------------------------------ TokenCodec

token_secret == "secret"

NoUsername == << >>

\* A claim set. hasId tells whether the "id" key is present.
Claims(hasId, id, username) == [hasId |-> hasId, id |-> id, username |-> username]

NoClaims == Claims(FALSE, 0, NoUsername)

\* The JSON object a claim set is serialized to: a set of key/value pairs,
\* with the "id" key only when the claims carry one.
claims_json(claims) ==
    { << "username", claims.username >> }
    \cup (IF claims.hasId THEN { << "id", claims.id >> } ELSE {})

\* The claim set a payload parses to: the keys it holds.
json_claims(payload) ==
    LET ids == { p \in payload : p[1] = "id" }
        names == { p \in payload : p[1] = "username" }
    IN Claims(ids # {},
              IF ids = {} THEN 0 ELSE (CHOOSE p \in ids : TRUE)[2],
              IF names = {} THEN NoUsername ELSE (CHOOSE p \in names : TRUE)[2])

\* An encoder that puts only the username into the payload.
jwt_encode_username_only(claims, secret) ==
    [kind |-> "jwt", payload |-> { << "username", claims.username >> }, sig |-> secret]

\* jwt.encode(claims, token_secret, algorithm="HS256"): the serialized claims
\* and the signature made with the secret.
jwt_encode(claims, secret) ==
    [kind |-> "jwt", payload |-> claims_json(claims), sig |-> secret]

\* The request carried no bearer token.
NoToken == [kind |-> "absent", payload |-> {}, sig |-> ""]

\* A token that was not signed with the service's secret.
ForgedToken == jwt_encode(Claims(TRUE, 1, <<"b", "o">>), "other")

\* decode_token(token) succeeds: the signature is the service's.
token_valid(token) == token.kind = "jwt" /\ token.sig = token_secret

\* decode_token(token): the claims of a valid token, parsed from its payload.
decode_token(token) == json_claims(token.payload)

\* EnUserDB.get_token_information(): the identity projection of a stored row.
db_token_information(acct) == Claims(TRUE, acct.id, acct.username)

\* EnUser.get_token_information() on the request model of register: it has
\* no store-assigned id, and its username is the one the client sent.
request_token_information(username) == Claims(FALSE, 0, username)

\* ------------------------------------------------------------------- state

VARIABLES
    store,      \* the user table: a set of rows
    nextId,     \* the next primary key the table assigns
    clock,      \* requests arrived so far; datetime.now() reads it
    req,        \* per slot: the request in flight, or the last one answered
    issued,     \* <<token, account id>>: tokens handed out and whom for
    deleted     \* ids of the rows whose delete has committed

vars == << store, nextId, clock, req, issued, deleted >>

\* EnUserUpdate with no field set.
NoFields == [username |-> {}, mail |-> {}, password |-> {}]

\* The partial updates a client may send: at most one field set.
PartialUpdates ==
    { NoFields }
    \cup { [NoFields EXCEPT !.username = {u}] : u \in Usernames }
    \cup { [NoFields EXCEPT !.mail = {m}] : m \in Mails }
    \cup { [NoFields EXCEPT !.password = {p}] : p \in Passwords }

NoBody == [user_data |-> NoClaims, token |-> NoToken, account |-> {}]

\* A free slot; status 0 stands for no answer yet.
IdleRequest ==
    [op |-> "none", pc |-> "idle", username |-> NoUsername, mail |-> "",
     password |-> "", token |-> NoToken, fields |-> NoFields, user_db |-> {},
     status |-> 0, body |-> NoBody]

\* response_model=EnUser: the fields of EnUser serialized from a row.
EnUser_projection(acct) ==
    [username |-> acct.username, mail |-> acct.mail, password |-> acct.password]

\* The tokens a client can present: those handed out, a forged one, none.
Presentable == { p[1] : p \in issued } \cup { ForgedToken, NoToken }

Init ==
    /\ store = {}
    /\ nextId = 1
    /\ clock = 0
    /\ req = [r \in Slots |-> IdleRequest]
    /\ issued = {}
    /\ deleted = {}

\* No answer is waiting to be delivered.
Quiet == \A s \in Slots : req[s].pc # "done"

\* A request takes the lowest free slot.
Free(r) == req[r].pc = "idle" /\ \A s \in Slots : s < r => req[s].pc # "idle"

\* A new request can enter slot r.
Begins(r) == Quiet /\ Free(r) /\ clock < MaxRequests

\* A position that is taken only while no other request is in flight: a
\* handler that holds a service-wide lock for the length of the request.
At_exclusive(r, pc) ==
    /\ Quiet
    /\ req[r].pc = pc
    /\ \A s \in Slots : s # r => req[s].pc = "idle"

\* The request of slot r is at position pc of its handler.
At(r, pc) == Quiet /\ req[r].pc = pc

\* The handler's arguments as the framework hands them over.
Request(op, username, mail, password, token, fields) ==
    [IdleRequest EXCEPT !.op = op, !.username = username, !.mail = mail,
                        !.password = password, !.token = token, !.fields = fields]

\* Request q of slot r ends: status and body are what the client receives.
Answer(r, q, status, body) ==
    req' = [req EXCEPT ![r] = [q EXCEPT !.pc = "done", !.status = status,
                                        !.body = body]]

\* Request q of slot r goes on to position pc holding the rows user_db.
Proceed(r, q, pc, user_db) ==
    req' = [req EXCEPT ![r] = [q EXCEPT !.pc = pc, !.user_db = user_db]]

\* ------------------------------------------------------------- AccountStore

\* The row with primary key id, if any: db.get(EnUserDB, id).
db_get(id) == { a \in store : a.id = id }

\* select(EnUserDB).where(EnUserDB.username == username)
select_by_username(username) == { a \in store : a.username = username }

\* select(EnUserDB).where(EnUserDB.mail == mail)
select_by_mail(mail) == { a \in store : a.mail = mail }

\* The unique constraints of the username and mail columns: the write of row
\* beside the rows others is rejected (IntegrityError).
unique_violation(row, others) ==
    \E a \in others : a.username = row.username \/ a.mail = row.mail

\* ---------------------------------------------------------------- user_login

\* EnUserDB.verify_password(password)
verify_password(acct, password) ==
    is_pbkdf2(acct.password) /\ pbkdf2_verify(password, acct.password)

\* Lines 20-27 and 44-45: the request arrives; the select, the 404, the
\* password check, the 401.
user_login_select(r) ==
    /\ Begins(r)
    /\ clock' = clock + 1
    /\ \E username \in Usernames, password \in Passwords :
         LET q == Request("login", username, "", password, NoToken, NoFields)
             found == select_by_username(username)
         IN IF found = {}
            THEN Answer(r, q, HTTP_404_NOT_FOUND, NoBody)
            ELSE \E user_db \in found :
                   IF verify_password(user_db, password)
                   THEN Proceed(r, q, "login_commit", {user_db})
                   ELSE Answer(r, q, HTTP_401_UNAUTHORIZED, NoBody)
    /\ UNCHANGED << store, nextId, issued, deleted >>

\* A login that stamps the row's creation time as well.
touch_both_stamps(row, now) == [row EXCEPT !.last_login = now, !.date_joined = now]

\* Line 28: user_db.last_login = datetime.now(), as the commit writes it.
touch_last_login(row, now) == [row EXCEPT !.last_login = now]

\* A login commit that merges its loaded copy into the table: when the row
\* is gone it is inserted again.
user_login_commit_merge(r) ==
    /\ At(r, "login_commit")
    /\ \E user_db \in req[r].user_db :
         LET cur == IF db_get(user_db.id) = {} THEN {user_db} ELSE db_get(user_db.id) IN
         \E row \in cur :
           LET fresh == touch_last_login(row, clock)
               token == jwt_encode(db_token_information(fresh), token_secret)
           IN /\ store' = (store \ {row}) \cup {fresh}
              /\ issued' = issued \cup { << token, fresh.id >> }
              /\ Answer(r, req[r], HTTP_200_OK,
                        [NoBody EXCEPT !.user_data = db_token_information(fresh),
                                       !.token = token])
    /\ UNCHANGED << nextId, clock, deleted >>

\* Lines 28-43: last_login, commit, refresh, the token and the response. The
\* commit is an UPDATE of the loaded row's last_login column; when the row is
\* gone it matches nothing (StaleDataError), which nothing catches.
user_login_commit(r) ==
    /\ At(r, "login_commit")
    /\ \E user_db \in req[r].user_db :
         LET cur == db_get(user_db.id) IN
         IF cur = {}
         THEN /\ Answer(r, req[r], HTTP_500_UNHANDLED, NoBody)
              /\ UNCHANGED << store, issued >>
         ELSE \E row \in cur :
                LET fresh == touch_last_login(row, clock)
                    token == jwt_encode(db_token_information(fresh), token_secret)
                IN /\ store' = (store \ {row}) \cup {fresh}
                   /\ issued' = issued \cup { << token, fresh.id >> }
                   /\ Answer(r, req[r], HTTP_200_OK,
                             [NoBody EXCEPT !.user_data = db_token_information(fresh),
                                            !.token = token])
    /\ UNCHANGED << nextId, clock, deleted >>

\* ------------------------------------------------------------- user_register

\* Lines 49-55: the request arrives; the pre-check against the same username.
user_register_username(r) ==
    /\ Begins(r)
    /\ clock' = clock + 1
    /\ \E username \in Usernames, mail \in Mails, password \in Passwords :
         LET q == Request("register", username, mail, password, NoToken, NoFields) IN
         IF select_by_username(username) # {}
         THEN Answer(r, q, HTTP_409_CONFLICT, NoBody)
         ELSE Proceed(r, q, "register_mail", {})
    /\ UNCHANGED << store, nextId, issued, deleted >>

\* A mail pre-check that, on a match, writes the request's username onto the
\* row it found before it answers 409.
user_register_mail_upsert(r) ==
    /\ At(r, "register_mail")
    /\ LET found == select_by_mail(req[r].mail) IN
       IF found # {}
       THEN /\ store' = (store \ found)
                         \cup { [a EXCEPT !.username = lower(req[r].username)] : a \in found }
            /\ Answer(r, req[r], HTTP_409_CONFLICT, NoBody)
       ELSE /\ store' = store
            /\ Proceed(r, req[r], "register_commit", {})
    /\ UNCHANGED << nextId, clock, issued, deleted >>

\* Lines 57-62: the pre-check against the same mail.
user_register_mail(r) ==
    /\ At(r, "register_mail")
    /\ IF select_by_mail(req[r].mail) # {}
       THEN Answer(r, req[r], HTTP_409_CONFLICT, NoBody)
       ELSE Proceed(r, req[r], "register_commit", {})
    /\ UNCHANGED << store, nextId, clock, issued, deleted >>

\* A row whose key is one more than the largest key in the table, as a
\* table without a monotonic sequence assigns it.
new_db_user_rowid(id, username, mail, password, salt, now) ==
    [id |-> IF store = {} THEN 1
            ELSE 1 + CHOOSE m \in { a.id : a \in store } :
                        \A a \in store : a.id <= m,
     username |-> lower(username), mail |-> mail,
     password |-> pbkdf2_hash(password, salt),
     date_joined |-> now, last_login |-> 0]

\* Lines 64-67: the row built from the request.
new_db_user(id, username, mail, password, salt, now) ==
    [id |-> id, username |-> lower(username), mail |-> mail,
     password |-> pbkdf2_hash(password, salt),
     date_joined |-> now, last_login |-> 0]

\* Lines 64-86: build the row, insert, commit, refresh, answer. A rejected
\* insert raises out of db.commit(); the handler catches nothing. The table
\* assigns ids from 1, so the 404 of line 86 (no id after the refresh) stays
\* unreached.
user_register_commit(r) ==
    /\ At(r, "register_commit")
    /\ \E salt \in Salts :
         LET db_user == new_db_user(nextId, req[r].username, req[r].mail,
                                    req[r].password, salt, clock)
             claims == request_token_information(req[r].username)
             token == jwt_encode(claims, token_secret)
         IN IF unique_violation(db_user, store)
            THEN /\ Answer(r, req[r], HTTP_500_UNHANDLED, NoBody)
                 /\ UNCHANGED << store, nextId, issued >>
            ELSE IF db_user.id = 0
            THEN /\ Answer(r, req[r], HTTP_404_NOT_FOUND, NoBody)
                 /\ UNCHANGED << store, nextId, issued >>
            ELSE /\ store' = store \cup {db_user}
                 /\ nextId' = nextId + 1
                 /\ issued' = issued \cup { << token, db_user.id >> }
                 /\ Answer(r, [req[r] EXCEPT !.user_db = {db_user}], HTTP_200_OK,
                           [NoBody EXCEPT !.user_data = claims, !.token = token])
    /\ UNCHANGED << clock, deleted >>

\* ----------------------------------------------------------------- user_read

\* A read that loads the row the claims name before it checks the token.
user_read_lookup_first(r) ==
    /\ Begins(r)
    /\ clock' = clock + 1
    /\ \E token \in Presentable :
         LET q == Request("read", NoUsername, "", "", token, NoFields)
             found == db_get(json_claims(token.payload).id)
         IN IF found = {}
            THEN Answer(r, q, HTTP_404_NOT_FOUND, NoBody)
            ELSE IF ~token_valid(token)
            THEN Answer(r, q, HTTP_401_UNAUTHORIZED, NoBody)
            ELSE \E user \in found :
                   Answer(r, [q EXCEPT !.user_db = {user}], HTTP_200_OK,
                          [NoBody EXCEPT !.account = {EnUser_projection(user)}])
    /\ UNCHANGED << store, nextId, issued, deleted >>

\* Lines 90-101. A claim set without "id" makes token_data["id"] raise.
user_read(r) ==
    /\ Begins(r)
    /\ clock' = clock + 1
    /\ \E token \in Presentable :
         LET q == Request("read", NoUsername, "", "", token, NoFields)
             token_data == decode_token(token)
         IN IF ~token_valid(token)
            THEN Answer(r, q, HTTP_401_UNAUTHORIZED, NoBody)
            ELSE IF ~token_data.hasId
            THEN Answer(r, q, HTTP_500_UNHANDLED, NoBody)
            ELSE IF db_get(token_data.id) = {}
            THEN Answer(r, q, HTTP_404_NOT_FOUND, NoBody)
            ELSE \E user \in db_get(token_data.id) :
                   Answer(r, [q EXCEPT !.user_db = {user}], HTTP_200_OK,
                          [NoBody EXCEPT !.account = {EnUser_projection(user)}])
    /\ UNCHANGED << store, nextId, issued, deleted >>

\* --------------------------------------------------------------- update_user

\* `if not user:` of line 110 tests the request body, which is an object and
\* so never false: the 404 of line 111 is not raised.
update_not_found(user_db, fields) == FALSE

\* Lines 105-111: the request arrives; decode, load the row, the (dead) 404.
\* With no row loaded the setattr loop, or else db.refresh(None), raises.
update_user_get(r) ==
    /\ Begins(r)
    /\ clock' = clock + 1
    /\ \E token \in Presentable, fields \in PartialUpdates :
         LET q == Request("update", NoUsername, "", "", token, fields)
             token_data == decode_token(token)
         IN IF ~token_valid(token)
            THEN Answer(r, q, HTTP_401_UNAUTHORIZED, NoBody)
            ELSE IF ~token_data.hasId
            THEN Answer(r, q, HTTP_500_UNHANDLED, NoBody)
            ELSE LET user_db == db_get(token_data.id) IN
                 IF update_not_found(user_db, fields)
                 THEN Answer(r, q, HTTP_404_NOT_FOUND, NoBody)
                 ELSE IF user_db = {}
                 THEN Answer(r, q, HTTP_500_UNHANDLED, NoBody)
                 ELSE Proceed(r, q, "update_commit", user_db)
    /\ UNCHANGED << store, nextId, issued, deleted >>

\* A field copy that runs over every field of the schema, writing the unset
\* ones as empty.
setattr_all_fields(acct, fields) ==
    [acct EXCEPT
       !.username = IF fields.username = {} THEN NoUsername
                    ELSE CHOOSE u \in fields.username : TRUE,
       !.mail = IF fields.mail = {} THEN ""
                ELSE CHOOSE m \in fields.mail : TRUE,
       !.password = IF fields.password = {} THEN raw_value("")
                    ELSE raw_value(CHOOSE p \in fields.password : TRUE)]

\* Lines 113-115: setattr(user_db, field, value) for each field of the partial
\* update, the value as it came.
setattr_fields(acct, fields) ==
    [acct EXCEPT
       !.username = IF fields.username = {} THEN @
                    ELSE CHOOSE u \in fields.username : TRUE,
       !.mail = IF fields.mail = {} THEN @
                ELSE CHOOSE m \in fields.mail : TRUE,
       !.password = IF fields.password = {} THEN @
                    ELSE raw_value(CHOOSE p \in fields.password : TRUE)]

\* The row after the UPDATE that db.commit() flushes: the columns whose value
\* the handler changed on its loaded copy are written, the others are left.
flushed(row, loaded, changed) ==
    [row EXCEPT
       !.username = IF changed.username = loaded.username THEN @ ELSE changed.username,
       !.mail = IF changed.mail = loaded.mail THEN @ ELSE changed.mail,
       !.password = IF changed.password = loaded.password THEN @ ELSE changed.password]

\* Lines 113-120: apply the fields, commit, refresh, answer with the row.
update_user_commit(r) ==
    /\ At(r, "update_commit")
    /\ \E loaded \in req[r].user_db :
         LET cur == db_get(loaded.id) IN
         IF cur = {}
         THEN /\ Answer(r, req[r], HTTP_500_UNHANDLED, NoBody)
              /\ store' = store
         ELSE \E row \in cur :
                LET fresh == flushed(row, loaded, setattr_fields(loaded, req[r].fields)) IN
                IF unique_violation(fresh, store \ {row})
                THEN /\ Answer(r, req[r], HTTP_500_UNHANDLED, NoBody)
                     /\ store' = store
                ELSE /\ store' = (store \ {row}) \cup {fresh}
                     /\ Answer(r, req[r], HTTP_200_OK,
                               [NoBody EXCEPT !.account = {EnUser_projection(fresh)}])
    /\ UNCHANGED << nextId, clock, issued, deleted >>

\* --------------------------------------------------------------- delete_user

\* Line 131: db.get(EnUser, token_data["id"]). EnUser is the request schema,
\* not the mapped table class EnUserDB: the call raises instead of loading.
get_by_claim_id(id) == [raises |-> TRUE, rows |-> {}]

\* Lines 124-134: the request arrives; decode, resolve the row by username or
\* by id, the 404.
delete_user_lookup(r) ==
    /\ Begins(r)
    /\ clock' = clock + 1
    /\ \E token \in Presentable :
         LET q == Request("delete", NoUsername, "", "", token, NoFields)
             token_data == decode_token(token)
         IN IF ~token_valid(token)
            THEN Answer(r, q, HTTP_401_UNAUTHORIZED, NoBody)
            ELSE IF ~token_data.hasId
            THEN LET found == select_by_username(token_data.username) IN
                 IF found = {}
                 THEN Answer(r, q, HTTP_404_NOT_FOUND, NoBody)
                 ELSE \E user \in found : Proceed(r, q, "delete_commit", {user})
            ELSE LET got == get_by_claim_id(token_data.id) IN
                 IF got.raises
                 THEN Answer(r, q, HTTP_500_UNHANDLED, NoBody)
                 ELSE IF got.rows = {}
                 THEN Answer(r, q, HTTP_404_NOT_FOUND, NoBody)
                 ELSE Proceed(r, q, "delete_commit", got.rows)
    /\ UNCHANGED << store, nextId, issued, deleted >>

\* Lines 136-147: delete, commit, echo the loaded row's claims and the token.
delete_user_commit(r) ==
    /\ At(r, "delete_commit")
    /\ \E user \in req[r].user_db :
         /\ store' = store \ db_get(user.id)
         /\ deleted' = deleted \cup {user.id}
         /\ Answer(r, req[r], HTTP_200_OK,
                   [NoBody EXCEPT !.user_data = db_token_information(user),
                                  !.token = req[r].token])
    /\ UNCHANGED << nextId, clock, issued >>

\* ---------------------------------------------------------------- the system

\* The answer leaves the service and the slot is free again. A handler that
\* has answered does nothing more, so the answer is delivered before any
\* other step is taken.
respond(r) ==
    /\ req[r].pc = "done"
    /\ req' = [req EXCEPT ![r] = IdleRequest]
    /\ UNCHANGED << store, nextId, clock, issued, deleted >>

Next ==
    \E r \in Slots :
        \/ user_login_select(r)
        \/ user_login_commit(r)
        \/ user_register_username(r)
        \/ user_register_mail(r)
        \/ user_register_commit(r)
        \/ user_read(r)
        \/ update_user_get(r)
        \/ update_user_commit(r)
        \/ delete_user_lookup(r)
        \/ delete_user_commit(r)
        \/ respond(r)

Spec == Init /\ [][Next]_vars

\* The steps that take the request of slot r, once started, to its answer
\* and out of the service.
Continue(r) ==
    \/ user_login_commit(r)
    \/ user_register_mail(r)
    \/ user_register_commit(r)
    \/ update_user_commit(r)
    \/ delete_user_commit(r)
    \/ respond(r)

\* The event loop runs every handler it has started: a request whose next
\* step stays possible takes it.
FairSpec == Spec /\ \A r \in Slots : WF_vars(Continue(r))

\* =================================================================== claims

\* Slot r holds a request of operation op that has just been answered.
Answered(r, op) == req[r].op = op /\ req[r].pc = "done"

\* Slot r was free and a request of operation op entered it in this step.
Entered(r, op) == req[r].pc = "idle" /\ req'[r].op = op

\* C1: registering twice under usernames that are equal ignoring case gives
\* one success and one Conflict: a register that is answered while another
\* register's account holds its normalized username is answered 409,
\* whether the two ran one after the other or interleaved.
C1_SecondRegisterConflicts ==
    \A r \in Slots :
        ( /\ Answered(r, "register")
          /\ \E a \in store \ req[r].user_db : a.username = lower(req[r].username) )
        => req[r].status = HTTP_409_CONFLICT

\* C2: no two stored accounts have usernames that are equal ignoring case,
\* and no two have the same mail.
C2_UniqueAccounts ==
    \A a, b \in store :
        a # b => lower(a.username) # lower(b.username) /\ a.mail # b.mail

\* C3: a register that passed both pre-checks and whose insert the store
\* rejects is answered 409 and adds no account.
C3_DuplicateKeyIsConflict ==
    [][ \A r \in Slots :
          ( /\ req[r].pc = "register_commit"
            /\ req'[r].pc = "done"
            /\ \E salt \in Salts :
                 unique_violation(new_db_user(nextId, req[r].username, req[r].mail,
                                              req[r].password, salt, clock), store) )
          => req'[r].status = HTTP_409_CONFLICT /\ store' = store ]_vars

\* C4: no answer carries a password or a password hash: an account body has
\* no password field.
C4_NoPasswordInResponse ==
    \A r \in Slots :
        req[r].pc = "done" =>
            \A body \in req[r].body.account : "password" \notin DOMAIN body

\* C5: every stored account's password is an output of the hasher.
C5_PasswordsAreHashed == \A a \in store : is_pbkdf2(a.password)

\* C6: the claims a successful register returns, in user_data and in the
\* token, carry the id and the username of the account it stored.
C6_RegisterClaimsMatchAccount ==
    \A r \in Slots :
        (Answered(r, "register") /\ req[r].status = HTTP_200_OK) =>
            \A a \in req[r].user_db :
                \A c \in { req[r].body.user_data, decode_token(req[r].body.token) } :
                    c.hasId /\ c.id = a.id /\ c.username = a.username

\* C7: a read or update that arrives after the delete of an account has
\* committed, with a valid token issued earlier for that account, is
\* answered 404. Both look the account up by claim id, so the tokens meant
\* are those whose claims carry one.
C7_DeletedAccountNotFound ==
    [][ \A r \in Slots :
          ( /\ Entered(r, "read") \/ Entered(r, "update")
            /\ token_valid(req'[r].token)
            /\ decode_token(req'[r].token).hasId
            /\ \E id \in deleted : << req'[r].token, id >> \in issued )
          => req'[r].pc = "done" /\ req'[r].status = HTTP_404_NOT_FOUND ]_vars

\* The outcomes of an operation: success and its typed failures.
Outcomes(op) ==
    CASE op = "register" -> { HTTP_200_OK, HTTP_409_CONFLICT }
      [] op = "login" -> { HTTP_200_OK, HTTP_404_NOT_FOUND, HTTP_401_UNAUTHORIZED }
      [] OTHER -> { HTTP_200_OK, HTTP_401_UNAUTHORIZED, HTTP_404_NOT_FOUND }

\* C8: every answer is the success or one of the typed failures of its
\* operation, never an unhandled error.
C8_TypedOutcomes ==
    \A r \in Slots : req[r].pc = "done" => req[r].status \in Outcomes(req[r].op)

\* C9: a login is answered 404 exactly when no stored username equals the
\* given one ignoring case; otherwise 401 exactly when the password does not
\* verify against the stored hash; otherwise it goes on to succeed.
C9_LoginOutcome ==
    [][ \A r \in Slots :
          Entered(r, "login") =>
            LET q == req'[r]
                found == { a \in store : lower(a.username) = lower(q.username) }
                ok == \E a \in found : verify_password(a, q.password)
            IN /\ (q.pc = "done" /\ q.status = HTTP_404_NOT_FOUND) <=> found = {}
               /\ found # {} =>
                    ((q.pc = "done" /\ q.status = HTTP_401_UNAUTHORIZED) <=> ~ok)
               /\ (found # {} /\ ok) => q.pc = "login_commit" ]_vars

\* The account a claim set names: by id when it carries one, else by username.
Named(token_data) ==
    IF token_data.hasId THEN db_get(token_data.id)
    ELSE select_by_username(token_data.username)

\* C10: a delete with a valid token resolves the account by claim id, or by
\* claim username when the claims carry no id; a missing account is answered
\* 404, an existing one is removed, it alone, and echoed with the token.
C10_DeleteResolvesAndRemoves ==
    [][ \A r \in Slots :
          /\ (Entered(r, "delete") /\ token_valid(req'[r].token)) =>
                LET target == Named(decode_token(req'[r].token)) IN
                IF target = {}
                THEN req'[r].pc = "done" /\ req'[r].status = HTTP_404_NOT_FOUND
                ELSE req'[r].pc = "delete_commit" /\ req'[r].user_db = target
          /\ (req[r].pc = "delete_commit" /\ req'[r].pc = "done") =>
                /\ store' = store \ req[r].user_db
                /\ req'[r].status = HTTP_200_OK
                /\ req'[r].body.token = req[r].token
                /\ \A a \in req[r].user_db :
                     req'[r].body.user_data = db_token_information(a) ]_vars

\* C11: a successful update changes, in the account the token's claim id
\* names, only fields that are present in the partial update: the fields
\* absent from it and the fields no update carries keep their values, and
\* every other account stays as it is.
C11_UpdateOnlyPresentFields ==
    [][ \A r \in Slots :
          ( /\ req[r].pc = "update_commit"
            /\ req'[r].pc = "done"
            /\ req'[r].status = HTTP_200_OK )
          => LET id == decode_token(req[r].token).id
                 f == req[r].fields
             IN /\ \A a \in store : a.id # id => a \in store'
                /\ \A b \in store' : b.id # id => b \in store
                /\ \A a \in db_get(id) :
                     \E b \in store' :
                        /\ b.id = id
                        /\ b.date_joined = a.date_joined
                        /\ b.last_login = a.last_login
                        /\ f.username = {} => b.username = a.username
                        /\ f.mail = {} => b.mail = a.mail
                        /\ f.password = {} => b.password = a.password ]_vars

\* An update was answered 200 and the stored row holds the new mail, which
\* is not the one the handler had loaded.
C11_Witness ==
    \E r \in Slots :
        /\ Answered(r, "update")
        /\ req[r].status = HTTP_200_OK
        /\ \E a \in db_get(decode_token(req[r].token).id) :
             /\ a.mail \in req[r].fields.mail
             /\ \A l \in req[r].user_db : l.mail # a.mail

\* The primary keys in a table.
Ids(rows) == { a.id : a \in rows }

TokenOps == {"read", "update", "delete"}

\* C13: a read, update or delete that arrives with no token or with an
\* invalid one is answered 401 whatever the table holds, and leaves the
\* table as it is.
C13_BadTokenUnauthenticated ==
    [][ \A r \in Slots :
          ( /\ req[r].pc = "idle"
            /\ req'[r].op \in TokenOps
            /\ ~token_valid(req'[r].token) )
          => /\ req'[r].pc = "done"
             /\ req'[r].status = HTTP_401_UNAUTHORIZED
             /\ store' = store ]_vars

\* A request with the forged token was answered 401 while the table held the
\* row the forged claims name.
C13_Witness ==
    \E r \in Slots :
        /\ req[r].pc = "done"
        /\ req[r].op \in TokenOps
        /\ req[r].token = ForgedToken
        /\ req[r].status = HTTP_401_UNAUTHORIZED
        /\ db_get(json_claims(ForgedToken.payload).id) # {}

\* The ids given to accounts so far: each register hands out a token for the
\* account it created.
AssignedIds == { p[2] : p \in issued }

C16_LoginTouchesLastLoginOnly ==
    [][ \A r \in Slots :
          /\ Entered(r, "login") => store' = store
          /\ (req[r].pc = "login_commit" /\ req'[r].pc = "done") =>
                IF req'[r].status # HTTP_200_OK
                THEN store' = store
                ELSE \A l \in req[r].user_db :
                       /\ \A a \in store : a.id # l.id => a \in store'
                       /\ \A b \in store' : b.id # l.id => b \in store
                       /\ \A a \in db_get(l.id) :
                            \E b \in store' :
                               [b EXCEPT !.last_login = a.last_login] = a ]_vars

\* A login has just succeeded and the matched row holds a new last_login,
\* beside another account in the table.
C16_Witness ==
    \E r \in Slots :
        /\ Answered(r, "login")
        /\ req[r].status = HTTP_200_OK
        /\ \E l \in req[r].user_db : \E a \in db_get(l.id) :
              /\ a.last_login # l.last_login
              /\ store # {a}

\* C17: a register that ends in Conflict leaves the table exactly as it was:
\* neither of its pre-check steps, the one that answers 409 included, adds or
\* changes a row.
C17_ConflictLeavesStore ==
    [][ \A r \in Slots :
          ( \/ Entered(r, "register")
            \/ req[r].pc = "register_mail" /\ req'[r].pc # "register_mail" )
          => store' = store ]_vars

\* A register was answered 409 for its mail, its username being free.
C17_Witness ==
    \E r \in Slots :
        /\ Answered(r, "register")
        /\ req[r].status = HTTP_409_CONFLICT
        /\ select_by_username(lower(req[r].username)) = {}
        /\ select_by_mail(req[r].mail) # {}

\* C18: once the delete of an account has committed the account is not in
\* the table, and no later commit of a login or update that had loaded it
\* puts it back.
C18_DeletedStaysDeleted == \A id \in deleted : db_get(id) = {}

\* A login that had loaded the account committed after its delete.
C18_Witness ==
    \E r \in Slots :
        /\ Answered(r, "login")
        /\ \E l \in req[r].user_db : l.id \in deleted

\* An update that had loaded the account committed after its delete.
C18_UpdateCase ==
    \E r \in Slots :
        /\ Answered(r, "update")
        /\ \E l \in req[r].user_db : l.id \in deleted

\* C19: under fair scheduling every request that has started is answered,
\* with a status, whatever other requests run beside it.
C19_EveryRequestAnswered ==
    \A r \in Slots :
        (req[r].pc # "idle") ~> (req[r].pc = "done" /\ req[r].status # 0)

\* Two requests are in flight at the same time, neither answered yet.
C19_Witness == \A r \in Slots : req[r].pc \notin {"idle", "done"}

====
